---- MODULE Spec2Model ----
(***************************************************************************)
(* Image categorizer (HikruOrg/HackatonEquipoD, backend/).                 *)
(*                                                                         *)
(*   categorize.py  map_to_groups, classify_image, load_categories         *)
(*   main.py        run_pipeline                                           *)
(*   app.py         process_images                                         *)
(*                                                                         *)
(* Strings are sequences of one-character strings so that lower(), strip() *)
(* and the substring test are computed.  Confidence scores are integers in *)
(* units of 1/One; the floating point products and quotients of the code   *)
(* are computed exactly except for the final quotient, which is floored.   *)
(* A Python dict is a sequence of key/value records in insertion order.    *)
(***************************************************************************)
EXTENDS Integers, Sequences, FiniteSets, TLC

\* ------------------------------------------------------------------------
\* Bounds of the model
\* ------------------------------------------------------------------------
MaxResults == 3     \* longest raw result list given to map_to_groups
MaxImages == 2      \* most images in one user folder
MaxCalls == 3       \* most calls of get_classifier in one process

\* the confidence 1.0
One == 10 ^ 4

\* ------------------------------------------------------------------------
\* State
\* ------------------------------------------------------------------------
VARIABLES
  \* one call of map_to_groups, statement by statement
  mg_pc,          \* "idle", "loop" (in  for label, score in results), "done"
  mg_results,     \* the argument  results
  mg_mapping,     \* the argument  mapping
  mg_i,           \* index of the next element of results
  grouped,        \* the local dict  grouped
  final_groups,   \* the returned dict
  \* the surroundings of one request or one call of run_pipeline
  entry,          \* "api" (POST /process) or "direct" (run_pipeline called)
  upload,         \* the uploaded file: its filename, size and content
  source,         \* the parsed content of the categories file
  use_azure,      \* storage mode
  user_filter,    \* the requested user, or None
  all_users,      \* the user folders of the storage, in listing order
  images,         \* number of image files of each user folder
  \* run_pipeline
  pc,
  mapping,
  user_folders,
  user_i,         \* index in user_folders of the user being processed
  img_i,          \* index of the next image of that user
  scores_total,   \* the dict scores_total of the user processed last
  rows,
  hist,           \* per user, the value of  grouped  for each image processed
  seen,           \* per user, the value of  results  for each image processed
  classified,     \* the images given to classify_image
  outcome,        \* what the classifier did for the image classified last
  temp_files,     \* the list temp_files
  tmp_disk,       \* the temporary files that exist
  result,         \* the returned list
  http,           \* status code of the response, 0 before it
  \* the classifier cache of the process
  azure_classifier,  \* the global _azure_classifier
  cv_env,            \* AZURE_COMPUTER_VISION_ENDPOINT and AZURE_COMPUTER_VISION_KEY
  cv_created,        \* the classifiers whose construction succeeded, in order
  cv_log             \* the calls of get_classifier: arguments and how each ended

mg_vars == <<mg_pc, mg_results, mg_mapping, mg_i, grouped, final_groups>>
env_vars == <<entry, upload, source, use_azure, user_filter, all_users, images>>
run_vars == <<pc, mapping, user_folders, user_i, img_i, scores_total, rows, hist, seen,
              classified, outcome, temp_files, tmp_disk, result, http>>

\* the folder or blob prefix of the user being processed
CurrentUser == user_folders[user_i]
cls_vars == <<azure_classifier, cv_env, cv_created, cv_log>>
vars == <<mg_vars, env_vars, run_vars, cls_vars>>

\* ------------------------------------------------------------------------
\* Strings
\* ------------------------------------------------------------------------
UpperToLower ==
  ( "A" :> "a" @@ "B" :> "b" @@ "C" :> "c" @@ "D" :> "d" @@ "E" :> "e" @@
    "F" :> "f" @@ "G" :> "g" @@ "H" :> "h" @@ "I" :> "i" @@ "J" :> "j" @@
    "K" :> "k" @@ "L" :> "l" @@ "M" :> "m" @@ "N" :> "n" @@ "O" :> "o" @@
    "P" :> "p" @@ "Q" :> "q" @@ "R" :> "r" @@ "S" :> "s" @@ "T" :> "t" @@
    "U" :> "u" @@ "V" :> "v" @@ "W" :> "w" @@ "X" :> "x" @@ "Y" :> "y" @@
    "Z" :> "z" )

\* str.lower()
lower(s) ==
  [i \in 1..Len(s) |-> IF s[i] \in DOMAIN UpperToLower THEN UpperToLower[s[i]] ELSE s[i]]

RECURSIVE lstrip(_)
lstrip(s) == IF s # <<>> /\ Head(s) = " " THEN lstrip(Tail(s)) ELSE s

RECURSIVE rstrip(_)
rstrip(s) ==
  IF s # <<>> /\ s[Len(s)] = " " THEN rstrip(SubSeq(s, 1, Len(s) - 1)) ELSE s

\* str.strip()
strip(s) == rstrip(lstrip(s))

\* label.lower().strip()
lower_strip(s) == strip(lower(s))

\* the Python test  a in b  on strings
IsSubstr(a, b) ==
  \E i \in 0..(Len(b) - Len(a)) : SubSeq(b, i + 1, i + Len(a)) = a

\* ------------------------------------------------------------------------
\* Python dicts, kept in insertion order
\* ------------------------------------------------------------------------
Keys(d) == {d[i].k : i \in 1..Len(d)}

HasKey(d, key) == \E i \in 1..Len(d) : d[i].k = key

\* d.get(key, default)
Get(d, key, default) ==
  IF HasKey(d, key) THEN d[CHOOSE i \in 1..Len(d) : d[i].k = key].v ELSE default

\* d[key] = val : an existing key keeps its position, a new one goes last
Put(d, key, val) ==
  IF HasKey(d, key)
  THEN [i \in 1..Len(d) |-> IF d[i].k = key THEN [k |-> key, v |-> val] ELSE d[i]]
  ELSE Append(d, [k |-> key, v |-> val])

\* ------------------------------------------------------------------------
\* categorize.py : map_to_groups
\* ------------------------------------------------------------------------
\* a label of the categories file that is not a string (a JSON number)
NonStr == <<"#">>

\* shortest category label that may match partially has more characters
PartialMinLen == 2
\* score * 0.8
PartialNum == 8
PartialDen == 10
\* 0.8 ** i
WeightNum == 8
WeightDen == 10

\* a partial match weighted up instead of down
PartialScoreUp(score) == (score * PartialDen) \div PartialNum

PartialScore(score) == (score * PartialNum) \div PartialDen

\* label_lower in [l.lower().strip() for l in labels]
ExactIn(label_lower, labels) ==
  \E j \in 1..Len(labels) : lower_strip(labels[j]) = label_lower

\* the substring test alone, short category labels included
PartialCondAnyLen(label_lower, category_label) ==
  LET category_lower == lower_strip(category_label)
  IN  IsSubstr(category_lower, label_lower) \/ IsSubstr(label_lower, category_lower)

\* the condition of the partial match, for one category label
PartialCond(label_lower, category_label) ==
  LET category_lower == lower_strip(category_label)
  IN  /\ (IsSubstr(category_lower, label_lower) \/ IsSubstr(label_lower, category_lower))
      /\ Len(category_lower) > PartialMinLen

PartialIn(label_lower, labels) ==
  \E j \in 1..Len(labels) : PartialCond(label_lower, labels[j])

\* grouped[group] = grouped.get(group, []) + [score]
AddScore(grp, group, score) ==
  Put(grp, group, Append(Get(grp, group, <<>>), score))

\* the partial match loop without its outer break: every category that
\* matches records the score
RECURSIVE PartialLoopAll(_, _, _, _, _)
PartialLoopAll(grp, label_lower, score, mp, g) ==
  IF g > Len(mp) THEN grp
  ELSE PartialLoopAll(IF PartialIn(label_lower, mp[g].v)
                      THEN AddScore(grp, mp[g].k, PartialScore(score))
                      ELSE grp,
                      label_lower, score, mp, g + 1)

\* the for ... else branch: the loop over the categories for a partial match
RECURSIVE PartialLoop(_, _, _, _, _)
PartialLoop(grp, label_lower, score, mp, g) ==
  IF g > Len(mp) THEN grp
  ELSE LET group == mp[g].k
           after == IF PartialIn(label_lower, mp[g].v)
                    THEN AddScore(grp, group, PartialScore(score))
                    ELSE grp
       IN  IF HasKey(after, group)
           THEN after
           ELSE PartialLoop(after, label_lower, score, mp, g + 1)

\* the exact match loop without its break: the last category wins
MapLabelLastHit(grp, label, score, mp) ==
  LET label_lower == lower_strip(label)
      hits == {g \in 1..Len(mp) : ExactIn(label_lower, mp[g].v)}
  IN  IF hits # {}
      THEN AddScore(grp, mp[CHOOSE g \in hits : \A h \in hits : g >= h].k, score)
      ELSE PartialLoop(grp, label_lower, score, mp, 1)

\* one iteration of  for label, score in results
MapLabel(grp, label, score, mp) ==
  LET label_lower == lower_strip(label)
      hits == {g \in 1..Len(mp) : ExactIn(label_lower, mp[g].v)}
  IN  IF hits # {}
      THEN AddScore(grp, mp[CHOOSE g \in hits : \A h \in hits : g <= h].k, score)
      ELSE PartialLoop(grp, label_lower, score, mp, 1)

RECURSIVE GroupLoop(_, _, _, _)
GroupLoop(grp, results, mp, i) ==
  IF i > Len(results) THEN grp
  ELSE GroupLoop(MapLabel(grp, results[i].label, results[i].score, mp),
                 results, mp, i + 1)

\* sorted(scores, reverse=True)
RECURSIVE InsertDesc(_, _)
InsertDesc(x, s) ==
  IF s = <<>> THEN <<x>>
  ELSE IF x > Head(s) THEN <<x>> \o s
  ELSE <<Head(s)>> \o InsertDesc(x, Tail(s))

RECURSIVE SortDesc(_)
SortDesc(s) == IF s = <<>> THEN <<>> ELSE InsertDesc(s[Len(s)], SortDesc(SubSeq(s, 1, Len(s) - 1)))

RECURSIVE Pow(_, _)
Pow(b, e) == IF e = 0 THEN 1 ELSE b * Pow(b, e - 1)

\* the same weight for every rank
WeightFlat(i, n) == Pow(WeightDen, n - 1)

\* weights 1.0, 0.8, 0.64, ... of n scores, all times 10^(n-1)
Weight(i, n) == Pow(WeightNum, i) * Pow(WeightDen, n - 1 - i)

RECURSIVE SumTo(_, _)
SumTo(f, n) == IF n = 0 THEN 0 ELSE f[n] + SumTo(f, n - 1)

\* the plain mean of the scores
CombinePlainMean(scores) == SumTo(scores, Len(scores)) \div Len(scores)

\* the combined score of one group
Combine(scores) ==
  LET sorted_scores == SortDesc(scores)
      n == Len(sorted_scores)
  IN  IF n = 1 THEN sorted_scores[1]
      ELSE LET weighted_sum == SumTo([i \in 1..n |-> sorted_scores[i] * Weight(i - 1, n)], n)
               weight_sum == SumTo([i \in 1..n |-> Weight(i - 1, n)], n)
           IN  weighted_sum \div weight_sum

\* for group, scores in grouped.items(): if scores: ...
RECURSIVE FinalLoop(_, _, _)
FinalLoop(final_in, grp, i) ==
  IF i > Len(grp) THEN final_in
  ELSE FinalLoop(IF grp[i].v # <<>>
                 THEN Put(final_in, grp[i].k, Combine(grp[i].v))
                 ELSE final_in,
                 grp, i + 1)

map_to_groups(results, mp) ==
  FinalLoop(<<>>, GroupLoop(<<>>, results, mp, 1), 1)

\* ------------------------------------------------------------------------
\* categorize.py : AzureImageClassifier.classify_image, classify_image
\* ------------------------------------------------------------------------
Max(a, b) == IF a >= b THEN a ELSE b

\* unique_results: the highest confidence of each label, compared as spelled
RECURSIVE UniqueLoop(_, _, _)
UniqueLoop(unique_results, results, i) ==
  IF i > Len(results) THEN unique_results
  ELSE LET label == results[i].label
           score == results[i].score
       IN  UniqueLoop(IF HasKey(unique_results, label)
                      THEN Put(unique_results, label, Max(Get(unique_results, label, 0), score))
                      ELSE Put(unique_results, label, score),
                      results, i + 1)

\* an insertion that puts an element before those of the same score
RECURSIVE InsertByScoreUnstable(_, _)
InsertByScoreUnstable(x, s) ==
  IF s = <<>> THEN <<x>>
  ELSE IF x.v >= Head(s).v THEN <<x>> \o s
  ELSE <<Head(s)>> \o InsertByScoreUnstable(x, Tail(s))

\* list.sort(key=lambda x: x[1], reverse=True) : stable, equal scores keep their order
RECURSIVE InsertByScore(_, _)
InsertByScore(x, s) ==
  IF s = <<>> THEN <<x>>
  ELSE IF x.v > Head(s).v THEN <<x>> \o s
  ELSE <<Head(s)>> \o InsertByScore(x, Tail(s))

RECURSIVE SortByScore(_)
SortByScore(s) ==
  IF s = <<>> THEN <<>>
  ELSE InsertByScore(s[Len(s)], SortByScore(SubSeq(s, 1, Len(s) - 1)))

\* the classifier's answer for one image: the analysis failed (any exception,
\* or no classifier could be created) or it gave the labels  raw
ClassifierResults(o) ==
  IF ~o.ok THEN <<>>
  ELSE LET final_results == SortByScore(UniqueLoop(<<>>, o.raw, 1))
       IN  [i \in 1..Len(final_results) |->
              [label |-> final_results[i].k, score |-> final_results[i].v]]

classify_image(o) == ClassifierResults(o)

\* ------------------------------------------------------------------------
\* main.py : the arithmetic of run_pipeline
\* ------------------------------------------------------------------------
\* rows kept per user
TopN == 3

\* for cat, sc in grouped.items(): scores_total[cat] = scores_total.get(cat, 0) + sc
RECURSIVE Accumulate(_, _, _)
Accumulate(totals, image_groups, i) ==
  IF i > Len(image_groups) THEN totals
  ELSE Accumulate(Put(totals, image_groups[i].k, Get(totals, image_groups[i].k, 0) + image_groups[i].v),
                  image_groups, i + 1)

\* each sum divided by the number of images in which the category appeared
AveragePresent(totals, image_count) ==
  [i \in 1..Len(totals) |->
     [k |-> totals[i].k,
      v |-> totals[i].v \div
              Cardinality({n \in 1..Len(hist[CurrentUser]) :
                             HasKey(hist[CurrentUser][n], totals[i].k)})]]

\* for cat in scores_total: scores_total[cat] /= len(image_files)
Average(totals, image_count) ==
  [i \in 1..Len(totals) |->
     [k |-> totals[i].k, v |-> totals[i].v \div image_count]]

\* the first three in insertion order, not sorted
Top3Unsorted(totals) ==
  SubSeq(totals, 1, IF Len(totals) < TopN THEN Len(totals) ELSE TopN)

\* sorted(scores_total.items(), key=lambda x: x[1], reverse=True)[:3]
Top3(totals) ==
  LET ranked == SortByScore(totals)
  IN  SubSeq(ranked, 1, IF Len(ranked) < TopN THEN Len(ranked) ELSE TopN)

\* round(sc, 3) : thousandths, the nearest one, a tie going to the even one
Round3(sc) ==
  LET q == sc \div (One \div 1000)
      r == sc % (One \div 1000)
      half == (One \div 1000) \div 2
  IN  IF r > half \/ (r = half /\ q % 2 = 1) THEN q + 1 ELSE q

UserRows(user, totals) ==
  LET top3 == Top3(totals)
  IN  [i \in 1..Len(top3) |->
         [user |-> user, category |-> top3[i].k, score |-> Round3(top3[i].v)]]

\* ------------------------------------------------------------------------
\* The categories file
\* ------------------------------------------------------------------------
\* flatten_labels raises on a source that is not an object (no .values())
\* and on a value that cannot be iterated (a number)
FlattenRaises(src) ==
  \/ src.kind # "object"
  \/ \E i \in 1..Len(src.cats) : src.cats[i].vkind = "number"

\* load_categories raises only when the file is not JSON
LoadRaises(src) == src.kind = "invalid"

\* the labels that  for l in labels  visits: the items of a list, the
\* characters of a string
LabelsOf(cat) ==
  IF cat.vkind = "string" THEN [j \in 1..Len(cat.v) |-> <<cat.v[j]>>] ELSE cat.v

LoadedMapping(src) ==
  [i \in 1..Len(src.cats) |-> [k |-> src.cats[i].k, v |-> LabelsOf(src.cats[i])]]

\* l.lower() raises on a label that is not a string: map_to_groups raises at
\* the first category holding one, unless the label matched exactly before
LabelRaises(label, mapping_in) ==
  \E g \in 1..Len(mapping_in) :
     /\ \E j \in 1..Len(mapping_in[g].v) : mapping_in[g].v[j] = NonStr
     /\ \A h \in 1..(g - 1) : ~ExactIn(lower_strip(label), mapping_in[h].v)

\* map_to_groups failing on an empty result list as well
MapRaisesOnEmpty(results, mapping_in) ==
  \/ results = <<>>
  \/ \E i \in 1..Len(results) : LabelRaises(results[i].label, mapping_in)

MapRaises(results, mapping_in) ==
  \E i \in 1..Len(results) : LabelRaises(results[i].label, mapping_in)

\* the checks of process_images on the parsed upload
UploadValid(src) ==
  /\ src.kind = "object"
  /\ \A i \in 1..Len(src.cats) :
        /\ src.cats[i].vkind = "list"
        /\ \A j \in 1..Len(src.cats[i].v) : src.cats[i].v[j] # NonStr

\* ------------------------------------------------------------------------
\* Inputs
\* ------------------------------------------------------------------------
None == "None"

s_dog == <<"d", "o", "g">>
s_Dog_ == <<"D", "o", "g", " ">>
s_dog_ == <<"d", "o", "g", " ">>
s_dogs == <<"d", "o", "g", "s">>
s_car == <<"c", "a", "r">>
s_cars == <<"c", "a", "r", "s">>
s_fox == <<"f", "o", "x">>
s_ox == <<"o", "x">>
s_cat == <<"c", "a", "t">>
s_animal == <<"a", "n", "i", "m", "a", "l">>
s_Animal == <<"A", "n", "i", "m", "a", "l">>
s_vehicle == <<"v", "e", "h", "i", "c", "l", "e">>
s_wild == <<"w", "i", "l", "d">>
s_Pet == <<"P", "e", "t">>

Pair(l, sc) == [label |-> l, score |-> sc]
Cat(name, labels) == [k |-> name, v |-> labels]
SrcCat(name, vkind, labels) == [k |-> name, vkind |-> vkind, v |-> labels]

\* raw results handed to map_to_groups
Confidences == {0, 5000, 9000}
GroupLabels == {s_dog, s_Dog_, s_dogs, s_cars, s_fox, s_ox}
GroupPairs == {Pair(l, sc) : l \in GroupLabels, sc \in Confidences}
GroupResults == UNION {[1..n -> GroupPairs] : n \in 0..MaxResults}

GroupMappings ==
  { <<Cat(s_animal, <<s_dog, s_ox>>), Cat(s_vehicle, <<s_car>>)>>,
    <<Cat(s_Animal, <<s_dogs>>), Cat(s_Pet, <<s_Dog_, s_fox>>)>>,
    <<Cat(s_wild, <<s_fox>>), Cat(s_animal, <<s_dog>>), Cat(s_Pet, <<s_dog, s_car>>)>> }

\* categories files
SrcGood ==
  [kind |-> "object",
   cats |-> <<SrcCat(s_animal, "list", <<s_dog, s_ox>>),
              SrcCat(s_vehicle, "list", <<s_car>>),
              SrcCat(s_wild, "list", <<s_fox>>),
              SrcCat(s_Pet, "list", <<s_cat>>)>>]
SrcArray == [kind |-> "array", cats |-> <<>>]
SrcInvalid == [kind |-> "invalid", cats |-> <<>>]
SrcNumber ==
  [kind |-> "object",
   cats |-> <<SrcCat(s_animal, "list", <<s_dog>>), SrcCat(s_vehicle, "number", <<>>)>>]
SrcString ==
  [kind |-> "object",
   cats |-> <<SrcCat(s_animal, "list", <<s_dog>>), SrcCat(s_vehicle, "string", s_car)>>]
SrcNonStr ==
  [kind |-> "object",
   cats |-> <<SrcCat(s_animal, "list", <<s_dog>>), SrcCat(s_vehicle, "list", <<NonStr, s_car>>)>>]
Sources == {SrcGood, SrcArray, SrcNumber, SrcString, SrcNonStr}

\* what the vision service may answer for an image
Outcomes ==
  { [ok |-> FALSE, raw |-> <<>>],
    [ok |-> TRUE, raw |-> <<Pair(s_dog, 9000), Pair(s_car, 5000)>>],
    [ok |-> TRUE, raw |-> <<Pair(s_fox, 5000), Pair(s_cat, 5000)>>],
    [ok |-> TRUE, raw |-> <<Pair(s_dog, 5000), Pair(s_dog_, 9000), Pair(s_cars, 5000)>>] }

\* uploads: the filename is empty, has another extension ("txt") or ends in
\* .json; the size is within 10 MB or not; the bytes are not UTF-8, not JSON,
\* or JSON (then  source  is what they parse to)
Uploads == [filename : {"", "txt", "json"}, size : {"ok", "big"},
            content : {"notutf8", "notjson", "json"}]
UploadOk == [filename |-> "json", size |-> "ok", content |-> "json"]

Users == {"u1", "u2"}
Requested == {None, "u1", "ghost"}
Listings == {<<>>, <<"u1">>, <<"u1", "u2">>, <<"u2", "u1">>}
Range(f) == {f[i] : i \in DOMAIN f}

\* ------------------------------------------------------------------------
\* categorize.py : get_classifier and the global _azure_classifier
\* ------------------------------------------------------------------------
Endpoints == {None, "e1", "e2"}
ApiKeys == {None, "k1", "k2"}
EnvSettings == [endpoint : {None, "e0"}, key : {None, "k0"}]

\* _azure_classifier = None
NoClassifier == [endpoint |-> None, key |-> None, id |-> 0]

\* endpoint or os.getenv(...)
Resolve(arg, env_value) == IF arg # None THEN arg ELSE env_value

\* AzureImageClassifier.__init__ raises ValueError
InitRaises(endpoint, key) ==
  \/ Resolve(endpoint, cv_env.endpoint) = None
  \/ Resolve(key, cv_env.key) = None

\* the object that AzureImageClassifier(endpoint, key) builds
NewClassifier(endpoint, key) ==
  [endpoint |-> Resolve(endpoint, cv_env.endpoint),
   key |-> Resolve(key, cv_env.key),
   id |-> Len(cv_created) + 1]

Call(endpoint, key, status, inst) ==
  [endpoint |-> endpoint, key |-> key, status |-> status, inst |-> inst]

ClassifierIdle ==
  /\ azure_classifier = NoClassifier
  /\ cv_env = [endpoint |-> None, key |-> None]
  /\ cv_created = <<>>
  /\ cv_log = <<>>

\* ------------------------------------------------------------------------
\* map_to_groups, statement by statement
\* ------------------------------------------------------------------------
RunIdle ==
  /\ entry = "direct" /\ upload = UploadOk /\ source = SrcGood /\ use_azure = FALSE
  /\ user_filter = None /\ all_users = <<>> /\ images = [u \in Users |-> 0]
  /\ pc = "idle" /\ mapping = <<>> /\ user_folders = <<>> /\ user_i = 1 /\ img_i = 1
  /\ scores_total = <<>> /\ rows = <<>> /\ hist = [u \in Users |-> <<>>]
  /\ seen = [u \in Users |-> <<>>]
  /\ classified = {} /\ outcome = [ok |-> FALSE, raw |-> <<>>]
  /\ temp_files = <<>> /\ tmp_disk = {} /\ result = <<>> /\ http = 0

GroupIdle ==
  /\ mg_pc = "idle" /\ mg_results = <<>> /\ mg_mapping = <<>> /\ mg_i = 1
  /\ grouped = <<>> /\ final_groups = <<>>

InitGroup ==
  /\ mg_pc = "loop"
  /\ mg_results \in GroupResults
  /\ mg_mapping \in GroupMappings
  /\ mg_i = 1
  /\ grouped = <<>>
  /\ final_groups = <<>>
  /\ RunIdle
  /\ ClassifierIdle

\* the body of  for label, score in results
GroupStep ==
  /\ mg_pc = "loop"
  /\ mg_i <= Len(mg_results)
  /\ grouped' = MapLabel(grouped, mg_results[mg_i].label, mg_results[mg_i].score, mg_mapping)
  /\ mg_i' = mg_i + 1
  /\ UNCHANGED <<mg_pc, mg_results, mg_mapping, final_groups, env_vars, run_vars, cls_vars>>

\* the loop over grouped.items() and the return
GroupFinal ==
  /\ mg_pc = "loop"
  /\ mg_i > Len(mg_results)
  /\ final_groups' = FinalLoop(<<>>, grouped, 1)
  /\ mg_pc' = "done"
  /\ UNCHANGED <<mg_results, mg_mapping, mg_i, grouped, env_vars, run_vars, cls_vars>>

NextGroup == GroupStep \/ GroupFinal

SpecGroup == InitGroup /\ [][NextGroup]_vars

\* ------------------------------------------------------------------------
\* app.py : process_images ; main.py : run_pipeline
\* ------------------------------------------------------------------------
Init ==
  /\ GroupIdle
  /\ ClassifierIdle
  /\ entry \in {"api", "direct"}
  /\ upload \in Uploads
  /\ source \in Sources \cup {SrcInvalid}
  /\ entry = "direct" => upload = UploadOk
  /\ source = SrcInvalid => entry = "direct"
  /\ upload # UploadOk => source = SrcGood
  /\ use_azure \in BOOLEAN
  /\ user_filter \in Requested
  /\ all_users \in Listings
  /\ images \in [Users -> 0..MaxImages]
  /\ \A u \in Users \ Range(all_users) : images[u] = 0
  /\ pc = IF entry = "api" THEN "api" ELSE "start"
  /\ mapping = <<>>
  /\ user_folders = <<>>
  /\ user_i = 1
  /\ img_i = 1
  /\ scores_total = <<>>
  /\ rows = <<>>
  /\ hist = [u \in Users |-> <<>>]
  /\ seen = [u \in Users |-> <<>>]
  /\ classified = {}
  /\ outcome = [ok |-> FALSE, raw |-> <<>>]
  /\ temp_files = <<>>
  /\ tmp_disk = {}
  /\ result = <<>>
  /\ http = 0

\* the temporary file of an image
TempFile(user, i) == <<user, i>>

\* cleanup_temp_files(temp_files) in the finally clause
Cleanup(disk, files) == disk \ Range(files)

\* the checks on the upload, in order; 0 when all pass
UploadStatus ==
  IF upload.filename = "" THEN 400
  ELSE IF upload.filename # "json" THEN 400
  ELSE IF upload.size = "big" THEN 413
  ELSE IF upload.content = "notutf8" THEN 500
  ELSE IF upload.content = "notjson" THEN 400
  ELSE IF ~UploadValid(source) THEN 400
  ELSE 0

ProcessImagesReject ==
  /\ pc = "api"
  /\ UploadStatus # 0
  /\ http' = UploadStatus
  /\ pc' = "responded"
  /\ UNCHANGED <<mg_vars, env_vars, cls_vars, mapping, user_folders, user_i, img_i, scores_total,
                 rows, hist, seen, classified, outcome, temp_files, tmp_disk, result>>

ProcessImagesAccept ==
  /\ pc = "api"
  /\ UploadStatus = 0
  /\ pc' = "start"
  /\ UNCHANGED <<mg_vars, env_vars, cls_vars, mapping, user_folders, user_i, img_i, scores_total,
                 rows, hist, seen, classified, outcome, temp_files, tmp_disk, result, http>>

ProcessImagesRespond ==
  /\ entry = "api"
  /\ pc \in {"returned", "raised"}
  /\ http' = IF pc = "returned" THEN 200 ELSE 500
  /\ pc' = "responded"
  /\ UNCHANGED <<mg_vars, env_vars, cls_vars, mapping, user_folders, user_i, img_i, scores_total,
                 rows, hist, seen, classified, outcome, temp_files, tmp_disk, result>>

\* mapping = load_categories(...); candidate_labels = flatten_labels(mapping)
LoadCategories ==
  /\ pc = "start"
  /\ ~LoadRaises(source) /\ ~FlattenRaises(source)
  /\ mapping' = LoadedMapping(source)
  /\ pc' = "storage"
  /\ UNCHANGED <<mg_vars, env_vars, cls_vars, user_folders, user_i, img_i, scores_total,
                 rows, hist, seen, classified, outcome, temp_files, tmp_disk, result, http>>

LoadCategoriesRaise ==
  /\ pc = "start"
  /\ LoadRaises(source) \/ FlattenRaises(source)
  /\ pc' = "raised"
  /\ UNCHANGED <<mg_vars, env_vars, cls_vars, mapping, user_folders, user_i, img_i, scores_total,
                 rows, hist, seen, classified, outcome, temp_files, tmp_disk, result, http>>

\* a requested user that is not found falls back to every user
SelectedUsersFallback ==
  IF user_filter # None /\ user_filter \in Range(all_users) THEN <<user_filter>> ELSE all_users

\* the users selected by user_filter among the discoverable ones
SelectedUsers ==
  IF user_filter # None
  THEN IF user_filter \in Range(all_users) THEN <<user_filter>> ELSE <<>>
  ELSE all_users

\* Azure only: the reader cannot be built, the connection is not validated,
\* or list_user_folders raises
StorageRaise ==
  /\ pc = "storage"
  /\ use_azure
  /\ pc' = "raised"
  /\ UNCHANGED <<mg_vars, env_vars, cls_vars, mapping, user_folders, user_i, img_i, scores_total,
                 rows, hist, seen, classified, outcome, temp_files, tmp_disk, result, http>>

SelectUsers ==
  /\ pc = "storage"
  /\ SelectedUsers # <<>>
  /\ user_folders' = SelectedUsers
  /\ user_i' = 1
  /\ pc' = "user"
  /\ UNCHANGED <<mg_vars, env_vars, cls_vars, mapping, img_i, scores_total,
                 rows, hist, seen, classified, outcome, temp_files, tmp_disk, result, http>>

\* return [] : the requested user is not found, or there is no user folder
ReturnNoUsers ==
  /\ pc = "storage"
  /\ SelectedUsers = <<>>
  /\ user_folders' = SelectedUsers
  /\ result' = <<>>
  /\ pc' = "returned"
  /\ UNCHANGED <<mg_vars, env_vars, cls_vars, mapping, user_i, img_i, scores_total,
                 rows, hist, seen, classified, outcome, temp_files, tmp_disk, http>>

AfterUser == IF user_i = Len(user_folders) THEN "report" ELSE "user"

\* break instead of continue: the users that follow are not processed
SkipUserBreak ==
  /\ pc = "user"
  /\ images[CurrentUser] = 0
  /\ scores_total' = <<>>
  /\ user_i' = Len(user_folders) + 1
  /\ pc' = "report"
  /\ UNCHANGED <<mg_vars, env_vars, cls_vars, mapping, user_folders, img_i,
                 rows, hist, seen, classified, outcome, temp_files, tmp_disk, result, http>>

\* if not image_files: continue
SkipUser ==
  /\ pc = "user"
  /\ images[CurrentUser] = 0
  /\ scores_total' = <<>>
  /\ user_i' = user_i + 1
  /\ pc' = AfterUser
  /\ UNCHANGED <<mg_vars, env_vars, cls_vars, mapping, user_folders, img_i,
                 rows, hist, seen, classified, outcome, temp_files, tmp_disk, result, http>>

\* the accumulator of the previous user carried into the next
StartUserKeepTotals ==
  /\ pc = "user"
  /\ images[CurrentUser] > 0
  /\ scores_total' = scores_total
  /\ img_i' = 1
  /\ pc' = "images"
  /\ UNCHANGED <<mg_vars, env_vars, cls_vars, mapping, user_folders, user_i,
                 rows, hist, seen, classified, outcome, temp_files, tmp_disk, result, http>>

\* scores_total = {} at the top of a user's iteration, then the loop over its images
StartUser ==
  /\ pc = "user"
  /\ images[CurrentUser] > 0
  /\ scores_total' = <<>>
  /\ img_i' = 1
  /\ pc' = "images"
  /\ UNCHANGED <<mg_vars, env_vars, cls_vars, mapping, user_folders, user_i,
                 rows, hist, seen, classified, outcome, temp_files, tmp_disk, result, http>>

\* Azure only: list_user_images raises
ListImagesRaise ==
  /\ pc = "user"
  /\ use_azure
  /\ scores_total' = <<>>
  /\ tmp_disk' = Cleanup(tmp_disk, temp_files)
  /\ pc' = "raised"
  /\ UNCHANGED <<mg_vars, env_vars, cls_vars, mapping, user_folders, user_i, img_i,
                 rows, hist, seen, classified, outcome, temp_files, result, http>>

\* Azure only: download_image_as_temp_file raises, before or after it has
\* created the temporary file
DownloadRaise ==
  /\ pc = "images"
  /\ img_i <= images[CurrentUser]
  /\ use_azure
  /\ \E created \in BOOLEAN :
        tmp_disk' = Cleanup(IF created THEN tmp_disk \cup {TempFile(CurrentUser, img_i)}
                            ELSE tmp_disk, temp_files)
  /\ pc' = "raised"
  /\ UNCHANGED <<mg_vars, env_vars, cls_vars, mapping, user_folders, user_i, img_i, scores_total,
                 rows, hist, seen, classified, outcome, temp_files, result, http>>

\* one image: download (Azure), classify_image, map_to_groups, accumulate
ProcessImage ==
  /\ pc = "images"
  /\ img_i <= images[CurrentUser]
  /\ \E o \in Outcomes :
       LET results == classify_image(o)
           image_groups == map_to_groups(results, mapping)
       IN  /\ ~MapRaises(results, mapping)
           /\ outcome' = o
           /\ scores_total' = Accumulate(scores_total, image_groups, 1)
           /\ hist' = [hist EXCEPT ![CurrentUser] = Append(@, image_groups)]
           /\ seen' = [seen EXCEPT ![CurrentUser] = Append(@, results)]
  /\ classified' = classified \cup {<<CurrentUser, img_i>>}
  /\ temp_files' = IF use_azure THEN Append(temp_files, TempFile(CurrentUser, img_i))
                   ELSE temp_files
  /\ tmp_disk' = IF use_azure THEN tmp_disk \cup {TempFile(CurrentUser, img_i)} ELSE tmp_disk
  /\ img_i' = img_i + 1
  /\ UNCHANGED <<mg_vars, env_vars, cls_vars, pc, mapping, user_folders, user_i, rows, result, http>>

\* one image whose labels reach a label of the mapping that is not a string
ProcessImageRaise ==
  /\ pc = "images"
  /\ img_i <= images[CurrentUser]
  /\ \E o \in Outcomes :
       /\ MapRaises(classify_image(o), mapping)
       /\ outcome' = o
  /\ classified' = classified \cup {<<CurrentUser, img_i>>}
  /\ temp_files' = IF use_azure THEN Append(temp_files, TempFile(CurrentUser, img_i))
                   ELSE temp_files
  /\ tmp_disk' = Cleanup(tmp_disk, temp_files')
  /\ pc' = "raised"
  /\ UNCHANGED <<mg_vars, env_vars, cls_vars, mapping, user_folders, user_i, img_i, scores_total,
                 rows, hist, seen, result, http>>

\* the averages, the top 3 and the rows of the user
FinishUser ==
  /\ pc = "images"
  /\ img_i > images[CurrentUser]
  /\ scores_total' = Average(scores_total, images[CurrentUser])
  /\ rows' = rows \o UserRows(CurrentUser, scores_total')
  /\ user_i' = user_i + 1
  /\ pc' = AfterUser
  /\ UNCHANGED <<mg_vars, env_vars, cls_vars, mapping, user_folders, img_i,
                 hist, seen, classified, outcome, temp_files, tmp_disk, result, http>>

\* save_excel, save_html, return rows
Report ==
  /\ pc = "report"
  /\ result' = rows
  /\ tmp_disk' = Cleanup(tmp_disk, temp_files)
  /\ pc' = "returned"
  /\ UNCHANGED <<mg_vars, env_vars, cls_vars, mapping, user_folders, user_i, img_i, scores_total,
                 rows, hist, seen, classified, outcome, temp_files, http>>

\* a report cannot be written
ReportRaise ==
  /\ pc = "report"
  /\ tmp_disk' = Cleanup(tmp_disk, temp_files)
  /\ pc' = "raised"
  /\ UNCHANGED <<mg_vars, env_vars, cls_vars, mapping, user_folders, user_i, img_i, scores_total,
                 rows, hist, seen, classified, outcome, temp_files, result, http>>

Next ==
  \/ ProcessImagesReject
  \/ ProcessImagesAccept
  \/ ProcessImagesRespond
  \/ LoadCategories
  \/ LoadCategoriesRaise
  \/ StorageRaise
  \/ SelectUsers
  \/ ReturnNoUsers
  \/ SkipUser
  \/ StartUser
  \/ ListImagesRaise
  \/ DownloadRaise
  \/ ProcessImage
  \/ ProcessImageRaise
  \/ FinishUser
  \/ Report
  \/ ReportRaise

Spec == Init /\ [][Next]_vars

\* ------------------------------------------------------------------------
\* get_classifier, call after call
\* ------------------------------------------------------------------------
InitClassifier ==
  /\ GroupIdle
  /\ RunIdle
  /\ azure_classifier = NoClassifier
  /\ cv_env \in EnvSettings
  /\ cv_created = <<>>
  /\ cv_log = <<>>

\* a cached classifier replaced when other credentials are passed
GetClassifierRecreate ==
  /\ Len(cv_log) < MaxCalls
  /\ azure_classifier # NoClassifier
  /\ \E endpoint \in Endpoints, key \in ApiKeys :
        IF InitRaises(endpoint, key) \/ NewClassifier(endpoint, key).endpoint = azure_classifier.endpoint
        THEN /\ cv_log' = Append(cv_log, Call(endpoint, key, "returned", azure_classifier))
             /\ UNCHANGED <<azure_classifier, cv_created>>
        ELSE /\ azure_classifier' = NewClassifier(endpoint, key)
             /\ cv_created' = Append(cv_created, azure_classifier')
             /\ cv_log' = Append(cv_log, Call(endpoint, key, "returned", azure_classifier'))
  /\ UNCHANGED <<mg_vars, env_vars, run_vars, cv_env>>

\* _azure_classifier is not None: return it
GetClassifierCached ==
  /\ Len(cv_log) < MaxCalls
  /\ azure_classifier # NoClassifier
  /\ \E endpoint \in Endpoints, key \in ApiKeys :
        cv_log' = Append(cv_log, Call(endpoint, key, "returned", azure_classifier))
  /\ UNCHANGED <<mg_vars, env_vars, run_vars, azure_classifier, cv_env, cv_created>>

\* _azure_classifier is None and the constructor succeeds
GetClassifierCreate ==
  /\ Len(cv_log) < MaxCalls
  /\ azure_classifier = NoClassifier
  /\ \E endpoint \in Endpoints, key \in ApiKeys :
        /\ ~InitRaises(endpoint, key)
        /\ azure_classifier' = NewClassifier(endpoint, key)
        /\ cv_created' = Append(cv_created, azure_classifier')
        /\ cv_log' = Append(cv_log, Call(endpoint, key, "returned", azure_classifier'))
  /\ UNCHANGED <<mg_vars, env_vars, run_vars, cv_env>>

\* _azure_classifier is None and the constructor raises: the ValueError of
\* missing credentials, or an exception of ComputerVisionClient
GetClassifierRaise ==
  /\ Len(cv_log) < MaxCalls
  /\ azure_classifier = NoClassifier
  /\ \E endpoint \in Endpoints, key \in ApiKeys, client_ok \in BOOLEAN :
        /\ InitRaises(endpoint, key) \/ ~client_ok
        /\ cv_log' = Append(cv_log, Call(endpoint, key, "raised", NoClassifier))
  /\ UNCHANGED <<mg_vars, env_vars, run_vars, azure_classifier, cv_env, cv_created>>

NextClassifier == GetClassifierCached \/ GetClassifierCreate \/ GetClassifierRaise

SpecClassifier == InitClassifier /\ [][NextClassifier]_vars

\* ------------------------------------------------------------------------
\* Properties of map_to_groups (SpecGroup)
\* ------------------------------------------------------------------------
\* the label and score that the next GroupStep handles
CurLabel == lower_strip(mg_results[mg_i].label)
CurScore == mg_results[mg_i].score

\* a step of the loop over results
IsGroupStep == mg_pc = "loop" /\ mg_i <= Len(mg_results) /\ mg_i' = mg_i + 1

LabelEq(l, category_label) == lower_strip(category_label) = l

LabelPartial(l, category_label) ==
  LET c == lower_strip(category_label)
  IN  Len(c) > 2 /\ (IsSubstr(c, l) \/ IsSubstr(l, c))

ExactCats(l) ==
  {g \in 1..Len(mg_mapping) :
     \E j \in 1..Len(mg_mapping[g].v) : LabelEq(l, mg_mapping[g].v[j])}

PartialCats(l) ==
  {g \in 1..Len(mg_mapping) :
     \E j \in 1..Len(mg_mapping[g].v) : LabelPartial(l, mg_mapping[g].v[j])}

First(set) == CHOOSE g \in set : \A h \in set : g <= h

ScoresOf(d, g) == Get(d, mg_mapping[g].k, <<>>)

\* C1: a label without exact match is recorded with score*0.8 under the
\* first category, in mapping order, that owns a label longer than 2
\* characters containing or contained in it, whatever was processed before.
C1_PartialFirstCategory ==
  [][ (IsGroupStep /\ ExactCats(CurLabel) = {} /\ PartialCats(CurLabel) # {})
      => LET g == First(PartialCats(CurLabel))
         IN  ScoresOf(grouped', g) = Append(ScoresOf(grouped, g), (CurScore * 8) \div 10) ]_vars

\* C2: a label equal to an entry of some category is recorded with its
\* unscaled score under the first such category in mapping order and under
\* no other, even when it partially matches a label of an earlier category.
C2_ExactFirstCategory ==
  [][ (IsGroupStep /\ ExactCats(CurLabel) # {})
      => LET g == First(ExactCats(CurLabel))
         IN  /\ ScoresOf(grouped', g) = Append(ScoresOf(grouped, g), CurScore)
             /\ \A h \in (1..Len(mg_mapping)) \ {g} :
                   mg_mapping[h].k # mg_mapping[g].k => ScoresOf(grouped', h) = ScoresOf(grouped, h)
             /\ Keys(grouped') \subseteq Keys(grouped) \cup {mg_mapping[g].k} ]_vars

\* the first label was recorded under a later category that holds it exactly,
\* although an earlier category holds a label it matches partially
C2_Witness ==
  /\ mg_i = 2
  /\ mg_results[1].score = 9000
  /\ LET l == lower_strip(mg_results[1].label)
     IN  /\ ExactCats(l) # {}
         /\ PartialCats(l) # {}
         /\ First(PartialCats(l)) < First(ExactCats(l))
         /\ ScoresOf(grouped, First(ExactCats(l))) = <<mg_results[1].score>>
         /\ ScoresOf(grouped, First(PartialCats(l))) = <<>>

MaxConfidence == CHOOSE m \in {mg_results[i].score : i \in 1..Len(mg_results)} :
                   \A i \in 1..Len(mg_results) : mg_results[i].score <= m

\* C6: every key of the result is a category name of the mapping, spelled
\* as in the mapping, and every combined score lies in [0, max raw confidence].
C6_KeysAndRange ==
  mg_pc = "done" =>
    \A i \in 1..Len(final_groups) :
       /\ \E g \in 1..Len(mg_mapping) : mg_mapping[g].k = final_groups[i].k
       /\ 0 <= final_groups[i].v
       /\ final_groups[i].v <= MaxConfidence

\* a result in which a category written with a capital holds one partial
\* match of the highest confidence and another category combines two scores
C6_Witness ==
  /\ mg_pc = "done"
  /\ mg_results # <<>>
  /\ MaxConfidence = 9000
  /\ \E i \in 1..Len(final_groups) :
        /\ final_groups[i].k = s_Pet
        /\ Get(grouped, s_Pet, <<>>) = <<7200>>
        /\ final_groups[i].v = 7200
  /\ \E i \in 1..Len(grouped) :
        /\ Len(grouped[i].v) = 2
        /\ grouped[i].v[1] # grouped[i].v[2]
        /\ Get(final_groups, grouped[i].k, 0) > 0

SumLens(d) == SumTo([i \in 1..Len(d) |-> Len(d[i].v)], Len(d))

Finished(u) == \E n \in 1..Len(user_folders) : n < user_i /\ user_folders[n] = u

\* the user whose iteration ended last, when the loop is between two users
BetweenUsers == pc \in {"user", "report"} /\ user_i > 1
LastUser == user_folders[user_i - 1]

\* the categories that received a score in some image of the user
ScoredCats(u) == UNION {Keys(hist[u][n]) : n \in 1..Len(hist[u])}

\* the sum of a category's grouped scores over the images of the user
HistSum(u, cat) == SumTo([n \in 1..Len(hist[u]) |-> Get(hist[u][n], cat, 0)], Len(hist[u]))

\* C3: the averaged score of each category is the sum of its per-image
\* grouped scores divided by N, the number of images of the user, the images
\* without the category or with an empty classification included.
C3_AverageOverAllImages ==
  (BetweenUsers /\ images[LastUser] >= 1) =>
    /\ Len(hist[LastUser]) = images[LastUser]
    /\ Keys(scores_total) = ScoredCats(LastUser)
    /\ \A cat \in Keys(scores_total) :
          Get(scores_total, cat, 0) = HistSum(LastUser, cat) \div images[LastUser]

\* two images, one scoring a category and one with no score at all: the
\* average is half the score
C3_Witness ==
  /\ BetweenUsers
  /\ images[LastUser] = 2
  /\ hist[LastUser][1] # <<>>
  /\ hist[LastUser][2] = <<>>
  /\ \E cat \in Keys(scores_total) :
        /\ Get(hist[LastUser][1], cat, 0) = 9000
        /\ Get(scores_total, cat, 0) = 4500

\* the rows of a user, in order
RowsOfUser(u) == SelectSeq(rows, LAMBDA r : r.user = u)

\* C4 as stated: at most 3 rows per user, strictly descending by score,
\* fewer than 3 only when fewer than 3 categories have a score.
C4_Top3StrictlyDescending ==
  \A u \in Users :
    LET r == RowsOfUser(u)
    IN  /\ Len(r) <= 3
        /\ \A i \in 1..(Len(r) - 1) : r[i].score > r[i + 1].score
        /\ (Finished(u) /\ Len(r) < 3) => Cardinality(ScoredCats(u)) = Len(r)

\* C4 amended: the same with a descending order that admits equal scores.
C4_Top3Descending ==
  \A u \in Users :
    LET r == RowsOfUser(u)
    IN  /\ Len(r) <= 3
        /\ \A i \in 1..(Len(r) - 1) : r[i].score >= r[i + 1].score
        /\ (Finished(u) /\ Len(r) < 3) => Cardinality(ScoredCats(u)) = Len(r)

\* a user with four scored categories and exactly three rows, two of them
\* with the same score below the first
C4_Witness ==
  \E u \in Users :
    /\ Finished(u)
    /\ Cardinality(ScoredCats(u)) > 3
    /\ Len(RowsOfUser(u)) = 3
    /\ RowsOfUser(u)[1].score > RowsOfUser(u)[2].score
    /\ RowsOfUser(u)[2].score = RowsOfUser(u)[3].score

\* C5: a classification failure for an image does not abort run_pipeline:
\* the image gives an empty GroupedScore, counts in the image total, and the
\* loop goes on with the next image.
C5_FailureIsEmptyGroup ==
  [][ (pc = "images" /\ classified' # classified /\ ~outcome'.ok)
      => /\ pc' = "images"
         /\ img_i' = img_i + 1
         /\ hist' = [hist EXCEPT ![CurrentUser] = Append(@, <<>>)]
         /\ scores_total' = scores_total
         /\ rows' = rows
         /\ user_i' = user_i ]_vars

\* a run that returned rows although the first image of a user could not be
\* classified: the second image is averaged over two images
C5_Witness ==
  /\ pc = "returned"
  /\ ~outcome.ok
  /\ \E u \in Users :
        /\ images[u] = 2
        /\ Len(hist[u]) = 2
        /\ hist[u][1] # <<>>
        /\ hist[u][2] = <<>>
        /\ \E n \in 1..Len(result) : result[n].user = u /\ result[n].score = 450

\* the categories file is not a mapping from string to list of strings
Malformed(src) ==
  \/ src.kind = "array"
  \/ /\ src.kind = "object"
     /\ \E i \in 1..Len(src.cats) :
           \/ src.cats[i].vkind # "list"
           \/ \E j \in 1..Len(src.cats[i].v) : src.cats[i].v[j] = NonStr

\* C7: loading a malformed category definition fails, and the failure is
\* fatal: no image is classified and no row is produced.
C7_MalformedMappingIsFatal ==
  Malformed(source) =>
    /\ pc \in {"api", "start", "raised", "responded"}
    /\ classified = {}
    /\ rows = <<>>

\* the requested user is not discoverable, or no user is
NoUserToProcess ==
  \/ user_filter # None /\ user_filter \notin Range(all_users)
  \/ all_users = <<>>

RECURSIVE TotalsOf(_, _)
TotalsOf(u, n) ==
  IF n = 0 THEN <<>> ELSE Accumulate(TotalsOf(u, n - 1), hist[u][n], 1)

OwnRows(u) ==
  IF images[u] = 0 THEN <<>>
  ELSE UserRows(u, [i \in 1..Len(TotalsOf(u, Len(hist[u]))) |->
                      [k |-> TotalsOf(u, Len(hist[u]))[i].k,
                       v |-> TotalsOf(u, Len(hist[u]))[i].v \div images[u]]])

RECURSIVE RowsUpTo(_)
RowsUpTo(n) == IF n = 0 THEN <<>> ELSE RowsUpTo(n - 1) \o OwnRows(user_folders[n])

\* C10: a user without images gives no row and no error, the users after
\* it are processed, and their rows are what they are without that user.
C10_EmptyUserSkipped ==
  /\ [](pc \in {"report", "returned"} =>
          /\ rows = RowsUpTo(Len(user_folders))
          /\ \A u \in Range(user_folders) : Len(hist[u]) = images[u])
  /\ [][ (pc = "user" /\ images[CurrentUser] = 0 /\ pc' # "raised")
         => /\ rows' = rows
            /\ user_i' = user_i + 1
            /\ pc' = IF user_i = Len(user_folders) THEN "report" ELSE "user" ]_vars

\* a returned run in which the first user has no image and the second has rows
C10_Witness ==
  /\ pc = "returned"
  /\ Len(user_folders) = 2
  /\ images[user_folders[1]] = 0
  /\ images[user_folders[2]] > 0
  /\ result # <<>>
  /\ \A n \in 1..Len(result) : result[n].user = user_folders[2]

\* ------------------------------------------------------------------------
\* Further properties of map_to_groups (SpecGroup)
\* ------------------------------------------------------------------------
Perms(n) == {p \in [1..n -> 1..n] : \A i, j \in 1..n : p[i] = p[j] => i = j}

\* a dict as a mapping, its insertion order forgotten
AsMap(d) == {<<d[i].k, d[i].v>> : i \in 1..Len(d)}

\* C11: the result of map_to_groups does not depend on the order of the
\* raw results: every permutation of the list gives the same mapping from
\* category to score.
C11_OrderIndependent ==
  mg_pc = "done" =>
    \A p \in Perms(Len(mg_results)) :
       AsMap(map_to_groups([i \in 1..Len(mg_results) |-> mg_results[p[i]]], mg_mapping))
         = AsMap(final_groups)

\* C12: each (label, score) pair adds at most one score to at most one
\* category's score list, whether matched exactly, partially or not at all.
C12_AtMostOneScorePerPair ==
  [][ IsGroupStep =>
        /\ SumLens(grouped') <= SumLens(grouped) + 1
        /\ \A g, h \in 1..Len(mg_mapping) :
              (ScoresOf(grouped', g) # ScoresOf(grouped, g) /\ ScoresOf(grouped', h) # ScoresOf(grouped, h))
                 => g = h
        /\ \A g \in 1..Len(mg_mapping) :
              \/ ScoresOf(grouped', g) = ScoresOf(grouped, g)
              \/ \E sc \in {CurScore, (CurScore * 8) \div 10} :
                    ScoresOf(grouped', g) = Append(ScoresOf(grouped, g), sc) ]_vars

\* the first label matches two categories partially and none exactly, and
\* only the first of the two holds its score
C12_Witness ==
  /\ mg_i = 2
  /\ mg_results[1].score = 9000
  /\ LET l == lower_strip(mg_results[1].label)
     IN  /\ ExactCats(l) = {}
         /\ Cardinality(PartialCats(l)) = 2
         /\ grouped = <<[k |-> mg_mapping[First(PartialCats(l))].k, v |-> <<7200>>]>>

\* the scores of a list from the highest to the lowest
Descending(scores) ==
  CHOOSE t \in {[i \in 1..Len(scores) |-> scores[p[i]]] : p \in Perms(Len(scores))} :
    \A i \in 1..(Len(t) - 1) : t[i] >= t[i + 1]

RECURSIVE WeightedTotal(_, _)
WeightedTotal(t, i) ==
  IF i > Len(t) THEN 0
  ELSE t[i] * (8 ^ (i - 1)) * (10 ^ (Len(t) - i)) + WeightedTotal(t, i + 1)

\* sum(score_i * 0.8^i) / sum(0.8^i) over the scores sorted descending
WeightedMean(scores) ==
  WeightedTotal(Descending(scores), 1)
    \div WeightedTotal([i \in 1..Len(scores) |-> 1], 1)

\* C13: a category with one assigned score keeps it unchanged, one with
\* several gets the mean of the descending scores weighted by 0.8^i; a
\* category without assigned label is absent, and no input gives no result.
C13_WeightedCombination ==
  mg_pc = "done" =>
    /\ Keys(final_groups) = Keys(grouped)
    /\ Len(final_groups) = Len(grouped)
    /\ \A i \in 1..Len(grouped) :
          /\ grouped[i].v # <<>>
          /\ Get(final_groups, grouped[i].k, -1) =
               IF Len(grouped[i].v) = 1 THEN grouped[i].v[1] ELSE WeightedMean(grouped[i].v)
    /\ mg_results = <<>> => final_groups = <<>>

\* a category with three different scores recorded out of order, and a
\* category of the mapping without any
C13_Witness ==
  /\ mg_pc = "done"
  /\ Len(final_groups) < Len(mg_mapping)
  /\ \E i \in 1..Len(grouped) :
        /\ grouped[i].v = <<5000, 9000, 0>>
        /\ Get(final_groups, grouped[i].k, -1) = (9000 * 100 + 5000 * 80) \div 244

\* the category whose scores are 0.9, 0.5 and 0.5
Has955(i) == i \in 1..Len(grouped) /\ Descending(grouped[i].v) = <<9000, 5000, 5000>>

\* C14 as stated: scores 0.9, 0.5, 0.5 of one category combine to
\* (0.9*1.0 + 0.5*0.8 + 0.5*0.64) / (1.0+0.8+0.64), about 0.738.
C14_Example738 ==
  mg_pc = "done" =>
    \A i \in 1..Len(grouped) :
       Has955(i) =>
         /\ Get(final_groups, grouped[i].k, -1) = (9000 * 100 + 5000 * 80 + 5000 * 64) \div (100 + 80 + 64)
         /\ Round3(Get(final_groups, grouped[i].k, -1)) = 738

\* C14 amended: the same quotient, which is about 0.664.
C14_Example664 ==
  mg_pc = "done" =>
    \A i \in 1..Len(grouped) :
       Has955(i) =>
         /\ Get(final_groups, grouped[i].k, -1) = (9000 * 100 + 5000 * 80 + 5000 * 64) \div (100 + 80 + 64)
         /\ Round3(Get(final_groups, grouped[i].k, -1)) = 664

\* the three scores were recorded with the highest one last
C14_Witness ==
  /\ mg_pc = "done"
  /\ \E i \in 1..Len(grouped) :
        /\ grouped[i].v = <<5000, 5000, 9000>>
        /\ Round3(Get(final_groups, grouped[i].k, -1)) = 664

\* the category labels of at most 2 characters that a label contains or is
\* contained in
ShortHits(l, g) ==
  {j \in 1..Len(mg_mapping[g].v) :
     LET c == lower_strip(mg_mapping[g].v[j])
     IN  Len(c) <= 2 /\ c # l /\ (IsSubstr(c, l) \/ IsSubstr(l, c))}

\* C16: a category label of 2 characters or less never gives a partial
\* match: a raw label that only contains such a label is not assigned to
\* its category, while an exact match on the short label is recorded.
C16_ShortLabelNeverPartial ==
  [][ IsGroupStep =>
        /\ ExactCats(CurLabel) = {} =>
              \A g \in (1..Len(mg_mapping)) \ PartialCats(CurLabel) :
                 ScoresOf(grouped', g) = ScoresOf(grouped, g)
        /\ \A g \in 1..Len(mg_mapping) :
              (g \in ExactCats(CurLabel) /\ g = First(ExactCats(CurLabel)) /\ Len(CurLabel) <= 2)
                 => ScoresOf(grouped', g) = Append(ScoresOf(grouped, g), CurScore) ]_vars

\* "fox" then "ox" against a category that owns "ox": only "ox" is recorded
C16_Witness ==
  /\ mg_i = 3
  /\ mg_results[1] = Pair(s_fox, 9000)
  /\ mg_results[2] = Pair(s_ox, 5000)
  /\ ShortHits(s_fox, 1) # {}
  /\ PartialCats(s_fox) = {}
  /\ grouped = <<[k |-> mg_mapping[1].k, v |-> <<5000>>]>>

\* ------------------------------------------------------------------------
\* Further properties of run_pipeline (Spec)
\* ------------------------------------------------------------------------
\* where a category first received a score for the user: image, then
\* position in the grouped scores of that image
FirstImage(u, cat) ==
  CHOOSE n \in 1..Len(hist[u]) :
    /\ HasKey(hist[u][n], cat)
    /\ \A m \in 1..(n - 1) : ~HasKey(hist[u][m], cat)

PositionIn(d, key) == CHOOSE i \in 1..Len(d) : d[i].k = key

ScoredBefore(u, c1, c2) ==
  \/ FirstImage(u, c1) < FirstImage(u, c2)
  \/ /\ FirstImage(u, c1) = FirstImage(u, c2)
     /\ PositionIn(hist[u][FirstImage(u, c1)], c1) < PositionIn(hist[u][FirstImage(u, c1)], c2)

RowIndex(u, cat) ==
  CHOOSE i \in 1..Len(RowsOfUser(u)) : RowsOfUser(u)[i].category = cat

HasRow(u, cat) == \E i \in 1..Len(RowsOfUser(u)) : RowsOfUser(u)[i].category = cat

\* C15: categories of a user with equal averaged scores are ranked in the
\* order in which they first received a score for that user.
C15_TiesKeepInsertionOrder ==
  (BetweenUsers /\ images[LastUser] >= 1) =>
    \A c1, c2 \in Keys(scores_total) :
       (/\ c1 # c2
        /\ Get(scores_total, c1, 0) = Get(scores_total, c2, 0)
        /\ ScoredBefore(LastUser, c1, c2)
        /\ HasRow(LastUser, c2))
         => /\ HasRow(LastUser, c1)
            /\ RowIndex(LastUser, c1) < RowIndex(LastUser, c2)

\* three categories with the same average, the one scored in the first
\* image ranked before the two scored in the second, and a fourth left out
C15_Witness ==
  /\ BetweenUsers
  /\ images[LastUser] = 2
  /\ Len(scores_total) = 4
  /\ Len(RowsOfUser(LastUser)) = 3
  /\ \E c1, c2 \in Keys(scores_total) :
        /\ Get(scores_total, c1, 0) = Get(scores_total, c2, 0)
        /\ FirstImage(LastUser, c1) = 1
        /\ FirstImage(LastUser, c2) = 2
        /\ HasRow(LastUser, c1) /\ HasRow(LastUser, c2)
        /\ RowIndex(LastUser, c1) + 1 = RowIndex(LastUser, c2)
        /\ \E c3 \in Keys(scores_total) :
              /\ Get(scores_total, c3, 0) = Get(scores_total, c1, 0)
              /\ ~HasRow(LastUser, c3)

\* ------------------------------------------------------------------------
\* Isolation of users in run_pipeline (Spec)
\* ------------------------------------------------------------------------
\* the totals of a user from the classification results of its own images
RECURSIVE IsolatedTotals(_, _)
IsolatedTotals(u, n) ==
  IF n = 0 THEN <<>>
  ELSE Accumulate(IsolatedTotals(u, n - 1), map_to_groups(seen[u][n], mapping), 1)

IsolatedRows(u) ==
  IF Len(seen[u]) = 0 THEN <<>>
  ELSE LET totals == IsolatedTotals(u, Len(seen[u]))
       IN  UserRows(u, [i \in 1..Len(totals) |->
                          [k |-> totals[i].k, v |-> totals[i].v \div Len(seen[u])]])

\* C17: the rows of a user whose iteration has ended are a function of the
\* mapping and of the classification results of that user's own images only,
\* whatever other users were processed before or after it, and the mapping
\* is not modified once it is loaded.
C17_UsersIsolated ==
  /\ [](\A u \in Users : Finished(u) => RowsOfUser(u) = IsolatedRows(u))
  /\ [][pc # "start" => mapping' = mapping]_vars

\* two users processed in one run, the second after a first that left
\* totals behind, each with its own rows
C17_Witness ==
  /\ pc = "returned"
  /\ Len(user_folders) = 2
  /\ \A u \in Users : Finished(u) /\ images[u] >= 1 /\ RowsOfUser(u) # <<>>
  /\ \E c \in Keys(TotalsOf(user_folders[1], Len(hist[user_folders[1]]))) :
        ~HasRow(user_folders[2], c)

\* ------------------------------------------------------------------------
\* Temporary files of Azure mode (Spec)
\* ------------------------------------------------------------------------
\* C18: in Azure mode no temporary file of a download is left on disk when
\* run_pipeline has returned or raised.
C18_TempFilesDeleted ==
  (use_azure /\ pc \in {"returned", "raised"}) => tmp_disk = {}

\* ------------------------------------------------------------------------
\* Properties of get_classifier (SpecClassifier)
\* ------------------------------------------------------------------------
Returned == {i \in 1..Len(cv_log) : cv_log[i].status = "returned"}

\* C19: at most one classifier is ever created; every call that returns
\* gives that one instance whatever its arguments, no call fails once it
\* exists, and while none exists the cache is empty and a call with usable
\* credentials can still create it.
C19_SingleClassifier ==
  /\ [](/\ Len(cv_created) <= 1
        /\ (Returned = {}) = (cv_created = <<>>)
        /\ azure_classifier = IF cv_created = <<>> THEN NoClassifier ELSE cv_created[1]
        /\ \A i \in Returned :
              /\ cv_log[i].inst = cv_created[1]
              /\ \A j \in (i + 1)..Len(cv_log) : j \in Returned
        /\ (cv_created = <<>> /\ Len(cv_log) < MaxCalls) => ENABLED GetClassifierCreate)
  /\ [][azure_classifier # NoClassifier => azure_classifier' = azure_classifier]_vars

\* a failed call, then a creation, then a call with another endpoint and
\* another key that returns the classifier of the second call
C19_Witness ==
  /\ Len(cv_log) = 3
  /\ cv_log[1].status = "raised"
  /\ cv_log[2].status = "returned"
  /\ cv_log[3].status = "returned"
  /\ cv_log[3].inst = cv_log[2].inst
  /\ cv_log[3].endpoint \notin {None, cv_log[2].inst.endpoint}
  /\ cv_log[3].key \notin {None, cv_log[2].inst.key}
  /\ azure_classifier = cv_log[2].inst

\* ------------------------------------------------------------------------
\* The checks of process_images (Spec)
\* ------------------------------------------------------------------------
\* the status of the first check that the upload fails, 0 when it passes all
FailedCheck ==
  IF upload.filename # "json" THEN 400
  ELSE IF upload.size = "big" THEN 413
  ELSE IF upload.content # "json" THEN 400
  ELSE IF ~UploadValid(source) THEN 400
  ELSE 0

PipelineUntouched ==
  /\ mapping = <<>>
  /\ classified = {}
  /\ rows = <<>>
  /\ \A u \in Users : seen[u] = <<>>

\* C20: run_pipeline starts only for an upload that passes every check; an
\* upload that fails one is answered with the 400 or 413 of that check and
\* the pipeline is never started; an error raised in run_pipeline is
\* answered with 500 and only a returned run with 200.
C20_ChecksBeforePipeline ==
  /\ []((entry = "api" /\ FailedCheck # 0) =>
          /\ pc \in {"api", "responded"}
          /\ PipelineUntouched
          /\ pc = "responded" => http = FailedCheck)
  /\ [][(entry = "api" /\ pc = "raised" /\ pc' # pc) => http' = 500]_vars
  /\ [][(http' = 200 /\ http # 200) => (pc = "returned" /\ FailedCheck = 0)]_vars
====
